---- MODULE Spec2Model ----
(***************************************************************************)
(* Token aggregator (src/backend.js): the polling cycle with its retried   *)
(* window fetches, the merge of the normalized records, the published      *)
(* snapshot latestAggregatedData, the WebSocket fan-out and the paginated  *)
(* query over the snapshot.                                                *)
(*                                                                         *)
(* JavaScript strings are sequences of one-character strings, so that      *)
(* toUpperCase, toLowerCase, includes and base64 act on the characters.    *)
(* Numbers are integers; NaN and fractions are outside the model.          *)
(***************************************************************************)
EXTENDS Integers, Sequences, FiniteSets, TLC

VARIABLES
    latestAggregatedData,   \* backend.js:13, the published snapshot
    pc,                     \* where startPolling stands: "boot", "polling", "timer";
                            \* for a function called on its own, its name ("returned"
                            \* once mergeTokens has returned)
    calls,                  \* per window: the state of its withExponentialBackoff call
    wssClients,             \* wss.clients in insertion order
    readyState,             \* readyState of every client
    sent,                   \* per client: the messages sent to it by the last step
    request,                \* the query of the last GET /api/tokens ("none" fields before any)
    response,               \* the body res.json() sent for it
    reqStart,               \* the offset the request's cursor was issued for (history)
    log,                    \* the last line startPolling wrote to the console
    mergeIn,                \* argument of a direct mergeTokens call
    mergeOut,               \* its result
    bo,                     \* one observed withExponentialBackoff call with its logs
    timers,                 \* the number of pending setTimeout(startPolling) timers
    lastSettled,            \* the window whose apiCall the last step settled ("none": no
                            \* one's); the body of the cycle leaves it as it finds it
    pages,                  \* the pages a client has fetched in one traversal (history)
    callIn,                 \* argument of a direct transformToken or fetchTokens call
    callOut                 \* its outcome

vars == <<latestAggregatedData, pc, calls, wssClients, readyState, sent, request,
          response, reqStart, log, mergeIn, mergeOut, bo, timers, lastSettled,
          pages, callIn, callOut>>

----------------------------------------------------------------------------
(* Strings                                                                 *)

Lowers == <<"a","b","c","d","e","f","g","h","i","j","k","l","m",
            "n","o","p","q","r","s","t","u","v","w","x","y","z">>
Uppers == <<"A","B","C","D","E","F","G","H","I","J","K","L","M",
            "N","O","P","Q","R","S","T","U","V","W","X","Y","Z">>
DigitChars == <<"0","1","2","3","4","5","6","7","8","9">>

IndexIn(seq, c) == IF \E k \in 1..Len(seq) : seq[k] = c
                   THEN CHOOSE k \in 1..Len(seq) : seq[k] = c
                   ELSE 0

UpperChar(c) == IF IndexIn(Lowers, c) # 0 THEN Uppers[IndexIn(Lowers, c)] ELSE c
LowerChar(c) == IF IndexIn(Uppers, c) # 0 THEN Lowers[IndexIn(Uppers, c)] ELSE c

toUpperCase(s) == [k \in 1..Len(s) |-> UpperChar(s[k])]
toLowerCase(s) == [k \in 1..Len(s) |-> LowerChar(s[k])]

\* String.prototype.includes
includes(s, sub) ==
    \E k \in 0..(Len(s) - Len(sub)) : \A j \in 1..Len(sub) : s[k + j] = sub[j]

RECURSIVE ToDigits(_)
\* decimal text of a non-negative integer
ToDigits(n) == IF n < 10 THEN <<DigitChars[n + 1]>>
               ELSE ToDigits(n \div 10) \o <<DigitChars[(n % 10) + 1]>>

\* the element of a one-element set: Only({F(v) : v \in {e}}) is F(e) with e
\* evaluated once, the way a loop holds the value of its variable
Only(S) == CHOOSE x \in S : TRUE

Max(a, b) == IF a >= b THEN a ELSE b
Min(a, b) == IF a <= b THEN a ELSE b

RECURSIVE Pow(_, _)
Pow(b, e) == IF e = 0 THEN 1 ELSE b * Pow(b, e - 1)

\* a || b on strings ('' is falsy) and on numbers (0 is falsy)
OrStr(a, b) == IF a # <<>> THEN a ELSE b
OrNum(a, b) == IF a # 0 THEN a ELSE b

----------------------------------------------------------------------------
(* transformToken, backend.js:45-73                                        *)
(* A raw record: isNull marks a null/undefined element; an absent string   *)
(* field is <<>> and an absent number 0 (|| treats them alike); symKind    *)
(* "number" is a truthy non-string symbol, which has no toUpperCase.       *)

STR_unknown == <<"u","n","k","n","o","w","n">>
STR_NA      == <<"N","/","A">>
STR_Unknown == <<"U","n","k","n","o","w","n">>

transformTokenThrows(t) ==
    \/ t.isNull                       \* t.id on null: TypeError
    \/ t.symKind = "number"           \* (t.symbol || '').toUpperCase is not a function

transformToken(t) ==
    LET id        == OrStr(t.id, OrStr(t.mint, STR_unknown))
        symbol    == OrStr(toUpperCase(OrStr(t.symbol, <<>>)), STR_NA)
        name      == OrStr(t.name, STR_Unknown)
        price     == OrNum(t.usdPrice, OrNum(t.priceUsd, 0))
        image     == OrStr(t.icon, <<>>)
        liquidity == OrNum(t.liquidity, 0)
        marketCap == OrNum(t.mcap, 0)
        priceChange24h == IF t.hasStats THEN OrNum(t.priceChange, 0) ELSE 0
        buyVol    == IF t.hasStats THEN OrNum(t.buyVolume, 0) ELSE 0
        sellVol   == IF t.hasStats THEN OrNum(t.sellVolume, 0) ELSE 0
        volume24h == buyVol + sellVol
    IN  [id |-> id, symbol |-> symbol, name |-> name, price |-> price,
         image |-> image, liquidity |-> liquidity, marketCap |-> marketCap,
         priceChange24h |-> priceChange24h, volume24h |-> volume24h]

----------------------------------------------------------------------------
(* mergeTokens, backend.js:77-98                                           *)
(* The Map is a sequence of [key, val] entries in insertion order.         *)

\* backend.js:81
mergeKey(tok) == toLowerCase(OrStr(tok.symbol, tok.id))

\* backend.js:90-94, the update of the existing entry ex by tok
mergeInto(ex, tok) ==
    [ex EXCEPT
        !.price = IF tok.price # 0 /\ (ex.price = 0 \/ tok.price > ex.price)
                  THEN tok.price ELSE @,
        !.volume24h = OrNum(ex.volume24h, 0) + OrNum(tok.volume24h, 0),
        !.liquidity = Max(OrNum(ex.liquidity, 0), OrNum(tok.liquidity, 0)),
        !.marketCap = Max(OrNum(ex.marketCap, 0), OrNum(tok.marketCap, 0))]

\* one iteration of the loop, backend.js:80-95
mergeStep(map, tok) ==
    LET key == mergeKey(tok)
        at  == IF \E k \in 1..Len(map) : map[k].key = key
               THEN CHOOSE k \in 1..Len(map) : map[k].key = key
               ELSE 0
    IN  IF at = 0
        THEN Append(map, [key |-> key, val |-> tok])
        ELSE [map EXCEPT ![at].val = mergeInto(@, tok)]

RECURSIVE mergeLoop(_, _)
mergeLoop(map, allTokens) ==
    IF allTokens = <<>> THEN map
    ELSE Only({mergeLoop(m, rest) : m \in {mergeStep(map, Head(allTokens))},
                                    rest \in {Tail(allTokens)}})

\* line 97: Array.from(map.values())
mapValues(map) == [k \in 1..Len(map) |-> map[k].val]

mergeTokens(allTokens) ==
    Only({mapValues(mergeLoop(<<>>, all)) : all \in {allTokens}})

----------------------------------------------------------------------------
(* fetchTokens, backend.js:33-42                                           *)
(* An upstream response: transportError (fetch rejects), the HTTP status,  *)
(* and the shape of the JSON body with the records it carries.             *)

MSG_API_returned == <<"A","P","I"," ","r","e","t","u","r","n","e","d"," ">>
MSG_No_tokens    == <<"N","o"," ","t","o","k","e","n","s">>
\* messages of the errors node-fetch and the runtime raise (texts abridged)
MSG_network      == <<"r","e","q","u","e","s","t"," ","f","a","i","l","e","d">>
MSG_invalid_json == <<"i","n","v","a","l","i","d"," ","j","s","o","n">>
MSG_type_error   == <<"C","a","n","n","o","t"," ","r","e","a","d">>

NoData == [isArray |-> TRUE, items |-> <<>>]

Resolved(data) == [ok |-> TRUE, data |-> data, error |-> <<>>]
Rejected(msg)  == [ok |-> FALSE, data |-> NoData, error |-> msg]

fetchTokens(res) ==
    IF res.transportError THEN Rejected(MSG_network)
    ELSE IF ~(res.status >= 200 /\ res.status <= 299)
         THEN Rejected(MSG_API_returned \o ToDigits(res.status))
    ELSE IF res.shape = "invalid" THEN Rejected(MSG_invalid_json)
    ELSE IF res.shape = "null" THEN Rejected(MSG_type_error)
    ELSE LET tokens == IF res.shape = "array" THEN [isArray |-> TRUE, items |-> res.items]
                       ELSE IF res.shape = "object" THEN [isArray |-> TRUE, items |-> res.items]
                       ELSE IF res.shape = "dataString" THEN [isArray |-> FALSE, items |-> res.items]
                       ELSE NoData     \* "noData": body.data is undefined
         IN  IF res.shape = "noData" \/ Len(tokens.items) = 0
             THEN Rejected(MSG_No_tokens)
             ELSE Resolved(tokens)

----------------------------------------------------------------------------
(* withExponentialBackoff, backend.js:17-29                                *)
(* A call is a record: phase "calling" (apiCall in flight), "waiting" (the *)
(* setTimeout of line 26 pending), "ok" (returned data) or "failed" (threw *)
(* error); i is the loop counter and delay the pending timer's delay. A    *)
(* call that has returned or thrown has no frame left: i is 0 again.       *)

maxRetriesDefault == 3
baseDelayDefault  == 2000

backoffStart == [phase |-> "calling", i |-> 0, delay |-> 0, data |-> NoData, error |-> <<>>]

isRateLimit(err) == includes(err, <<"4","2","9">>)

\* mutant: the two multipliers exchanged
multiplier_swapped(err) == IF includes(err, <<"4","2","9">>) THEN 2 ELSE 5

multiplier(err) == IF isRateLimit(err) THEN 5 ELSE 2

backoffDelay(err, i, baseDelay) == baseDelay * Pow(multiplier(err), i)

\* line 20: apiCall() resolved
backoffOnResolve(st, data) == [st EXCEPT !.phase = "ok", !.i = 0, !.data = data]

\* mutant: the loop gives up one attempt late
backoffOnReject_oneMore(st, err, maxRetries, baseDelay) ==
    IF st.i = maxRetries
    THEN [st EXCEPT !.phase = "failed", !.i = 0, !.error = err]
    ELSE [st EXCEPT !.phase = "waiting",
                    !.delay = baseDelay * Pow(IF includes(err, <<"4","2","9">>) THEN 5 ELSE 2, st.i)]

\* lines 21-27: apiCall() rejected with err
backoffOnReject(st, err, maxRetries, baseDelay) ==
    IF st.i = maxRetries - 1
    THEN [st EXCEPT !.phase = "failed", !.i = 0, !.error = err]
    ELSE [st EXCEPT !.phase = "waiting", !.delay = backoffDelay(err, st.i, baseDelay)]

\* line 26 timer fired, then line 18: i++
backoffOnTimer(st) == [st EXCEPT !.phase = "calling", !.i = @ + 1, !.delay = 0]

\* mutant: a call that waits for its retry counts as settled
backoffSettled_waiting(st) == st.phase \in {"ok", "failed", "waiting"}

backoffSettled(st) == st.phase \in {"ok", "failed"}

----------------------------------------------------------------------------
(* startPolling, backend.js:114-157, and broadcast, backend.js:102-110     *)

INTERVALS == <<"5m", "1h", "6h", "24h">>
Windows == {INTERVALS[k] : k \in 1..Len(INTERVALS)}

\* mutant: the result of the window that settled last comes last
settledResults_completionOrder(cs) ==
    LET last  == {k \in 1..Len(INTERVALS) : INTERVALS[k] = lastSettled}
        idx   == SelectSeq([k \in 1..Len(INTERVALS) |-> k], LAMBDA k : k \notin last)
                    \o SelectSeq([k \in 1..Len(INTERVALS) |-> k], LAMBDA k : k \in last)
    IN  [k \in 1..Len(INTERVALS) |-> cs[INTERVALS[idx[k]]]]

\* lines 118-125: what Promise.all resolves with, in the order of INTERVALS
settledResults(cs) == [k \in 1..Len(INTERVALS) |-> cs[INTERVALS[k]]]

\* r.data.map(t => transformToken(t)) of line 135, for records that do not throw
mapTransform(items) == [k \in 1..Len(items) |-> transformToken(items[k])]

\* line 135 throws: r.data has no map, or transformToken throws on a record
collectThrows(r) ==
    \/ ~r.data.isArray
    \/ \E k \in 1..Len(r.data.items) : transformTokenThrows(r.data.items[k])

RECURSIVE collectLoop(_, _)
\* lines 126-136: the loop over results; [threw, collected]
collectLoop(results, collected) ==
    IF results = <<>> THEN [threw |-> FALSE, collected |-> collected]
    ELSE LET r == Head(results)
         IN  IF r.phase = "failed"                     \* if (r.error) continue
             THEN Only({collectLoop(rest, collected) : rest \in {Tail(results)}})
             ELSE IF collectThrows(r)
             THEN [threw |-> TRUE, collected |-> collected]
             ELSE Only({collectLoop(rest, c) :
                           rest \in {Tail(results)},
                           c \in {collected \o mapTransform(r.data.items)}})

Message(type, tokens) == [type |-> type, tokens |-> tokens]

\* the WebSocket clients there are
Clients == {"c1", "c2"}

NoneSent == [c \in Clients |-> <<>>]

RECURSIVE broadcastLoop(_, _, _, _, _)
\* wss.clients.forEach of lines 105-109: a send that throws ends the loop
broadcastLoop(msg, clients, rs, throwing, out) ==
    IF clients = <<>> THEN [threw |-> FALSE, sent |-> out]
    ELSE LET client == Head(clients)
         IN  IF rs[client] # "OPEN"
             THEN Only({broadcastLoop(msg, rest, rs, throwing, out) :
                           rest \in {Tail(clients)}})
             ELSE IF client \in throwing
             THEN [threw |-> TRUE, sent |-> out]
             ELSE Only({broadcastLoop(msg, rest, rs, throwing, o) :
                           rest \in {Tail(clients)},
                           o \in {[out EXCEPT ![client] = Append(@, msg)]}})

----------------------------------------------------------------------------
(* The cursor codec of filterAndSortTokens, backend.js:178 and 187         *)
(* A text (the JSON of a cursor) is a sequence of byte values; a cursor is *)
(* a string of base64 characters.                                          *)

B64Chars == Uppers \o Lowers \o DigitChars \o <<"+", "/">>

\* the value of a base64 character; "-" and "_" are the URL-safe forms; 64: not one
B64Value(c) == IF IndexIn(B64Chars, c) # 0 THEN IndexIn(B64Chars, c) - 1
               ELSE IF c = "-" THEN 62
               ELSE IF c = "_" THEN 63
               ELSE 64

RECURSIVE B64Encode(_)
\* Buffer.from(text).toString('base64')
B64Encode(bytes) ==
    IF Len(bytes) = 0 THEN <<>>
    ELSE IF Len(bytes) = 1 THEN
        LET n == bytes[1] * 65536
        IN  <<B64Chars[(n \div 262144) + 1], B64Chars[((n \div 4096) % 64) + 1], "=", "=">>
    ELSE IF Len(bytes) = 2 THEN
        LET n == bytes[1] * 65536 + bytes[2] * 256
        IN  <<B64Chars[(n \div 262144) + 1], B64Chars[((n \div 4096) % 64) + 1],
              B64Chars[((n \div 64) % 64) + 1], "=">>
    ELSE
        LET n == bytes[1] * 65536 + bytes[2] * 256 + bytes[3]
        IN  <<B64Chars[(n \div 262144) + 1], B64Chars[((n \div 4096) % 64) + 1],
              B64Chars[((n \div 64) % 64) + 1], B64Chars[(n % 64) + 1]>>
            \o B64Encode(SubSeq(bytes, 4, Len(bytes)))

RECURSIVE B64Sextets(_)
\* the sextets of a base64 string: decoding ends at "=", other characters are skipped
B64Sextets(chars) ==
    IF chars = <<>> \/ Head(chars) = "=" THEN <<>>
    ELSE IF B64Value(Head(chars)) = 64 THEN B64Sextets(Tail(chars))
    ELSE <<B64Value(Head(chars))>> \o B64Sextets(Tail(chars))

RECURSIVE B64Bytes(_)
B64Bytes(sx) ==
    IF Len(sx) < 2 THEN <<>>
    ELSE IF Len(sx) = 2 THEN <<(sx[1] * 4) + (sx[2] \div 16)>>
    ELSE IF Len(sx) = 3 THEN <<(sx[1] * 4) + (sx[2] \div 16),
                               ((sx[2] % 16) * 16) + (sx[3] \div 4)>>
    ELSE <<(sx[1] * 4) + (sx[2] \div 16),
           ((sx[2] % 16) * 16) + (sx[3] \div 4),
           ((sx[3] % 4) * 64) + sx[4]>> \o B64Bytes(SubSeq(sx, 5, Len(sx)))

\* Buffer.from(cursor, 'base64').toString()
B64Decode(chars) == B64Bytes(B64Sextets(chars))

RECURSIVE DigitBytes(_)
DigitBytes(n) == IF n < 10 THEN <<48 + n>>
                 ELSE DigitBytes(n \div 10) \o <<48 + (n % 10)>>

\* the text of a JSON integer
NumberText(n) == IF n < 0 THEN <<45>> \o DigitBytes(-n) ELSE DigitBytes(n)

TXT_offset_open == <<123, 34, 111, 102, 102, 115, 101, 116, 34, 58>>   \* {"offset":
TXT_close       == <<125>>                                             \* }
TXT_empty_obj   == <<123, 125>>                                        \* {}
TXT_null        == <<110, 117, 108, 108>>                              \* null

\* JSON.stringify({ offset: n })
StringifyOffset(n) == TXT_offset_open \o NumberText(n) \o TXT_close

RECURSIVE DigitsValue(_, _)
DigitsValue(ds, acc) == IF ds = <<>> THEN acc
                        ELSE DigitsValue(Tail(ds), (acc * 10) + (Head(ds) - 48))

\* a JSON integer literal: -?(0|[1-9][0-9]*)
IsIntLiteral(t) ==
    LET ds == IF t # <<>> /\ t[1] = 45 THEN Tail(t) ELSE t
    IN  /\ ds # <<>>
        /\ \A k \in 1..Len(ds) : ds[k] >= 48 /\ ds[k] <= 57
        /\ (Len(ds) > 1 => ds[1] # 48)

IntLiteralValue(t) == IF t[1] = 45 THEN -DigitsValue(Tail(t), 0) ELSE DigitsValue(t, 0)

\* JSON.parse of a cursor text, for the texts {"offset":<integer>}, {} and null;
\* every other text of the model's cursors is not JSON and raises SyntaxError.
\* kind: "offset" (an object with an integer offset), "noOffset", "null", "syntaxError"
ParseCursorText(t) ==
    LET n   == Len(TXT_offset_open)
        mid == SubSeq(t, n + 1, Len(t) - 1)
    IN  IF t = TXT_null THEN [kind |-> "null", offset |-> 0]
        ELSE IF t = TXT_empty_obj THEN [kind |-> "noOffset", offset |-> 0]
        ELSE IF /\ Len(t) > n + 1
                /\ SubSeq(t, 1, n) = TXT_offset_open
                /\ t[Len(t)] = 125
                /\ IsIntLiteral(mid)
             THEN [kind |-> "offset", offset |-> IntLiteralValue(mid)]
        ELSE [kind |-> "syntaxError", offset |-> 0]

\* lines 175-181: the start offset of a cursor (<<>> is the null cursor)
cursorStart(cursor) ==
    IF cursor = <<>> THEN 0
    ELSE LET decoded == ParseCursorText(B64Decode(cursor))
         IN  IF decoded.kind = "offset"
             THEN OrNum(decoded.offset, 0)   \* decoded.offset || 0
             ELSE 0                          \* undefined || 0, or caught: start stays 0

\* mutant: the cursor stands for the offset after the next token
encodeCursor_skip(offset) == B64Encode(StringifyOffset(offset + 1))

\* line 187
encodeCursor(offset) == B64Encode(StringifyOffset(offset))

----------------------------------------------------------------------------
(* filterAndSortTokens, backend.js:161-191                                 *)

\* Array.prototype.slice(start, end)
JsSlice(seq, start, end) ==
    LET len  == Len(seq)
        from == IF start < 0 THEN Max(len + start, 0) ELSE Min(start, len)
        to   == IF end < 0 THEN Max(len + end, 0) ELSE Min(end, len)
    IN  SubSeq(seq, from + 1, to)

RECURSIVE filterPrice(_)
\* line 167
filterPrice(tokens) ==
    IF tokens = <<>> THEN <<>>
    ELSE IF Head(tokens).price >= 0
         THEN <<Head(tokens)>> \o filterPrice(Tail(tokens))
         ELSE filterPrice(Tail(tokens))

\* lines 169-173, the comparator
compareTokens(a, b, sortBy, order) ==
    LET aVal == IF sortBy = "price" THEN a.price ELSE a.volume24h
        bVal == IF sortBy = "price" THEN b.price ELSE b.volume24h
    IN  IF order = "asc" THEN aVal - bVal ELSE bVal - aVal

\* x placed after every element that does not sort after it (the sort is stable)
insertSorted(sorted, x, sortBy, order) ==
    LET at == IF \E k \in 1..Len(sorted) : compareTokens(sorted[k], x, sortBy, order) > 0
              THEN CHOOSE k \in 1..Len(sorted) :
                       /\ compareTokens(sorted[k], x, sortBy, order) > 0
                       /\ \A j \in 1..(k - 1) : compareTokens(sorted[j], x, sortBy, order) <= 0
              ELSE Len(sorted) + 1
    IN  SubSeq(sorted, 1, at - 1) \o <<x>> \o SubSeq(sorted, at, Len(sorted))

RECURSIVE sortLoop(_, _, _, _)
sortLoop(sorted, rest, sortBy, order) ==
    IF rest = <<>> THEN sorted
    ELSE sortLoop(insertSorted(sorted, Head(rest), sortBy, order), Tail(rest), sortBy, order)

\* lines 167-173: filtered, then sorted
sortedFiltered(tokens, sortBy, order) == sortLoop(<<>>, filterPrice(tokens), sortBy, order)

DEFAULT_LIMIT == 50

\* lines 183-188: the page and the next cursor
paginate(filtered, start, limit) ==
    [tokens     |-> JsSlice(filtered, start, start + limit),
     nextCursor |-> IF start + limit < Len(filtered) THEN encodeCursor(start + limit) ELSE <<>>,
     total      |-> Len(filtered),
     limit      |-> limit,
     present    |-> TRUE]

\* opts: sortBy and order ("" when absent), limit (0 when absent), cursor (<<>> when absent)
filterAndSortTokens(tokens, opts) ==
    LET sortBy == IF opts.sortBy # "" THEN opts.sortBy ELSE "volume"
        order  == IF opts.order # "" THEN opts.order ELSE "desc"
        limit  == OrNum(opts.limit, DEFAULT_LIMIT)
        cursor == opts.cursor
    IN  paginate(sortedFiltered(tokens, sortBy, order), cursorStart(cursor), limit)

\* parseInt of a query string (<<>> when the parameter is absent): an optional sign
\* and the leading digits; [nan, val]
parseInt(s) ==
    LET neg    == s # <<>> /\ s[1] = "-"
        body   == IF s # <<>> /\ s[1] \in {"-", "+"} THEN Tail(s) ELSE s
        isDig(c) == IndexIn(DigitChars, c) # 0
        n      == IF \E k \in 1..Len(body) : ~isDig(body[k])
                  THEN (CHOOSE k \in 1..Len(body) :
                            ~isDig(body[k]) /\ \A j \in 1..(k - 1) : isDig(body[j])) - 1
                  ELSE Len(body)
        RECURSIVE val(_, _)
        val(k, acc) == IF k > n THEN acc
                       ELSE val(k + 1, (acc * 10) + (IndexIn(DigitChars, body[k]) - 1))
    IN  IF n = 0 THEN [nan |-> TRUE, val |-> 0]
        ELSE [nan |-> FALSE, val |-> IF neg THEN -val(1, 0) ELSE val(1, 0)]

\* lines 206-212: the options the /api/tokens handler builds from req.query
handlerOpts(query) ==
    [sortBy |-> IF query.sortBy # "" THEN query.sortBy ELSE "volume",
     order  |-> IF query.order # "" THEN query.order ELSE "desc",
     limit  |-> LET p == parseInt(query.limit)
                IN  IF p.nan \/ p.val = 0 THEN DEFAULT_LIMIT ELSE p.val,
     cursor |-> query.cursor,
     present |-> TRUE]

\* mutant: line 138 left out, an empty collection is merged and published
cycleFails_noEmptyCheck(results) == collectLoop(results, <<>>).threw

\* lines 126-138: the body throws before line 140 (a throw of line 135, or "No data collected")
cycleFails(results) ==
    LET col == collectLoop(results, <<>>)
    IN  col.threw \/ Len(col.collected) = 0

\* mutant: the collected records are published as they are, duplicates not merged
cycleSnapshot_unmerged(results) == collectLoop(results, <<>>).collected

\* line 140: the snapshot the body installs when it does not fail
cycleSnapshot(results) == mergeTokens(collectLoop(results, <<>>).collected)

\* lines 142 and 152: the line the body logs
\* sendThrew: a client.send of the broadcast threw, after line 142 had logged
cycleLog(results, sendThrew) ==
    IF collectLoop(results, <<>>).threw THEN "POLL ERROR TypeError"
    ELSE IF cycleFails(results) THEN "POLL ERROR No data collected"
    ELSE IF sendThrew THEN "POLL ERROR send failed"
    ELSE "MERGED"

\* mutant: the timer is re-armed at the end of try, not in finally
afterCycle_inTry(failed) == IF failed THEN "stopped" ELSE "timer"

\* lines 153-156: finally re-arms the timer, whether the body failed or not
afterCycle(failed) == "timer"

----------------------------------------------------------------------------
(* The upstream of the system specification                                *)

Raw(id, symbol, price, liquidity, mcap, buy, sell) ==
    [isNull |-> FALSE, id |-> id, mint |-> <<>>, symKind |-> "string", symbol |-> symbol,
     name |-> <<>>, usdPrice |-> price, priceUsd |-> 0, icon |-> <<>>,
     liquidity |-> liquidity, mcap |-> mcap, hasStats |-> TRUE, priceChange |-> 0,
     buyVolume |-> buy, sellVolume |-> sell]

RawNull ==
    [isNull |-> TRUE, id |-> <<>>, mint |-> <<>>, symKind |-> "string", symbol |-> <<>>,
     name |-> <<>>, usdPrice |-> 0, priceUsd |-> 0, icon |-> <<>>,
     liquidity |-> 0, mcap |-> 0, hasStats |-> FALSE, priceChange |-> 0,
     buyVolume |-> 0, sellVolume |-> 0]

\* the records the upstream holds for each window: "Abc" trends in 5m and (as "abc")
\* in 1h; the records of 1h and 6h without a symbol have different ids; the list
\* of 24h holds a null element
Payload(w) ==
    CASE w = "5m"  -> <<Raw(<<"m","1">>, <<"A","b","c">>, 1, 5, 100, 4, 6)>>
      [] w = "1h"  -> <<Raw(<<"m","1">>, <<"a","b","c">>, 2, 3, 200, 10, 10),
                        Raw(<<"m","2">>, <<>>, 3, 1, 10, 1, 1)>>
      [] w = "6h"  -> <<Raw(<<"m","3">>, <<>>, 0, 2, 20, 2, 0)>>
      [] OTHER     -> <<RawNull>>

Http(status, shape, items) ==
    [transportError |-> FALSE, status |-> status, shape |-> shape, items |-> items]

\* what the upstream answers a fetch of window w with: the rate limit, or the
\* window's records
Responses(w) == {Http(429, "array", <<>>), Http(200, "array", Payload(w))}

\* the clients that subscribe in the system specification
Subscribers == {"c1"}

----------------------------------------------------------------------------
(* The system: state after the module is loaded, and its steps             *)

NoCall == [phase |-> "none", i |-> 0, delay |-> 0, data |-> NoData, error |-> <<>>]

NoRequest  == [sortBy |-> "", order |-> "", limit |-> 0, cursor |-> <<>>, present |-> FALSE]
NoResponse == [tokens |-> <<>>, nextCursor |-> <<>>, total |-> 0, limit |-> 0, present |-> FALSE]

\* bo before any observed call. invoked counts the calls of apiCall, errors lists what
\* they rejected with, delays the delays of the timers set at line 26, resolved is
\* what apiCall resolved with
NoBackoff == [st |-> NoCall, maxRetries |-> 0, baseDelay |-> 0,
              invoked |-> 0, errors |-> <<>>, delays |-> <<>>, resolved |-> NoData]

\* a step that answers no request
NoReply == request' = NoRequest /\ response' = NoResponse /\ reqStart' = 0

\* pages before any traversal: fromStart marks a traversal begun without a cursor,
\* calls counts its calls, tokens concatenates its pages
NoPages == [fromStart |-> FALSE, calls |-> 0, tokens |-> <<>>]

\* callIn and callOut when no function is called on its own
NoArg == [kind |-> "none"]

Unused == UNCHANGED <<mergeIn, mergeOut, bo, pages, callIn, callOut>>

Init ==
    /\ latestAggregatedData = <<>>
    /\ pc = "boot"
    /\ calls = [w \in Windows |-> NoCall]
    /\ wssClients = <<>>
    /\ readyState = [c \in Clients |-> "CLOSED"]
    /\ sent = NoneSent
    /\ request = NoRequest
    /\ response = NoResponse
    /\ reqStart = 0
    /\ log = ""
    /\ mergeIn = <<>>
    /\ mergeOut = <<>>
    /\ bo = NoBackoff
    /\ timers = 0
    /\ lastSettled = "none"
    /\ pages = NoPages
    /\ callIn = NoArg
    /\ callOut = NoArg

\* the setTimeout(startPolling, ...) calls startPolling makes at a point of its body:
\* none where it starts (line 115), one in finally (line 155)
timersArmed_atStart(at) == IF at = "start" THEN 1 ELSE 0

timersArmed(at) == IF at = "finally" THEN 1 ELSE 0

\* lines 115-125: startPolling starts the four retried fetches and awaits them
launch ==
    /\ pc' = "polling"
    /\ log' = "Starting polling"
    /\ calls' = [w \in Windows |-> backoffStart]
    /\ sent' = NoneSent
    /\ lastSettled' = "none"
    /\ NoReply
    /\ UNCHANGED <<latestAggregatedData, wssClients, readyState>>
    /\ Unused

\* lines 228-230: the listen callback
Listen ==
    /\ pc = "boot"
    /\ launch
    /\ timers' = timers + timersArmed("start")

\* the timer of line 155 fires
TimerFires ==
    /\ timers > 0
    /\ launch
    /\ timers' = (timers - 1) + timersArmed("start")

\* one apiCall of window w settles with the upstream's response res
FetchSettles(w) ==
    /\ pc = "polling"
    /\ calls[w].phase = "calling"
    /\ \E res \in Responses(w) :
          LET r == fetchTokens(res)
          IN  calls' = [calls EXCEPT ![w] =
                  IF r.ok THEN backoffOnResolve(@, r.data)
                  ELSE backoffOnReject(@, r.error, maxRetriesDefault, baseDelayDefault)]
    /\ sent' = NoneSent
    /\ lastSettled' = w
    /\ NoReply
    /\ UNCHANGED <<latestAggregatedData, pc, wssClients, readyState, log, timers>>
    /\ Unused

\* the backoff timer of window w fires
BackoffTimer(w) ==
    /\ pc = "polling"
    /\ calls[w].phase = "waiting"
    /\ calls' = [calls EXCEPT ![w] = backoffOnTimer(@)]
    /\ sent' = NoneSent
    /\ lastSettled' = "none"
    /\ NoReply
    /\ UNCHANGED <<latestAggregatedData, pc, wssClients, readyState, log, timers>>
    /\ Unused

\* lines 125-156: Promise.all has resolved; the body runs to the end of finally.
\* throwing: the clients whose send throws during this broadcast
CycleBody ==
    /\ pc = "polling"
    /\ \A w \in Windows : backoffSettled(calls[w])
    /\ \E results \in {settledResults(calls)} :
          /\ IF cycleFails(results)
             THEN /\ sent' = NoneSent
                  /\ log' = cycleLog(results, FALSE)
                  /\ UNCHANGED latestAggregatedData
             ELSE /\ latestAggregatedData' = cycleSnapshot(results)
                  /\ \E throwing \in SUBSET {c \in Clients : readyState[c] = "OPEN"} :
                     \E b \in {broadcastLoop(Message("UPDATE", latestAggregatedData'),
                                             wssClients, readyState, throwing, NoneSent)} :
                        /\ sent' = b.sent
                        /\ log' = cycleLog(results, b.threw)
          /\ pc' = afterCycle(cycleFails(results))
          /\ timers' = timers + (IF afterCycle(cycleFails(results)) = "timer"
                                 THEN timersArmed("finally") ELSE 0)
    /\ calls' = [w \in Windows |-> NoCall]
    /\ UNCHANGED lastSettled
    /\ NoReply
    /\ UNCHANGED <<wssClients, readyState>>
    /\ Unused

\* mutant: the snapshot is sent on connect even when it is empty
initialLoad_always(ws, snapshot) ==
    [NoneSent EXCEPT ![ws] = <<Message("INITIAL_LOAD", snapshot)>>]

\* lines 218-224: what the connection handler sends, and to whom
initialLoad(ws, snapshot) ==
    IF Len(snapshot) > 0
    THEN [NoneSent EXCEPT ![ws] = <<Message("INITIAL_LOAD", snapshot)>>]
    ELSE NoneSent

\* lines 217-225: a subscriber connects
Connection(c) ==
    /\ pc # "boot"
    /\ readyState[c] = "CLOSED"
    /\ wssClients' = Append(wssClients, c)
    /\ readyState' = [readyState EXCEPT ![c] = "OPEN"]
    /\ sent' = initialLoad(c, latestAggregatedData)
    /\ lastSettled' = "none"
    /\ NoReply
    /\ UNCHANGED <<latestAggregatedData, pc, calls, log, timers>>
    /\ Unused

\* a subscriber starts closing: it stays in wss.clients, no longer OPEN
ClientClosing(c) ==
    /\ readyState[c] = "OPEN"
    /\ readyState' = [readyState EXCEPT ![c] = "CLOSING"]
    /\ sent' = NoneSent
    /\ lastSettled' = "none"
    /\ NoReply
    /\ UNCHANGED <<latestAggregatedData, pc, calls, wssClients, log, timers>>
    /\ Unused

\* its socket has closed: ws removes it from wss.clients
ClientClosed(c) ==
    /\ readyState[c] \in {"OPEN", "CLOSING"}
    /\ readyState' = [readyState EXCEPT ![c] = "CLOSED"]
    /\ wssClients' = SelectSeq(wssClients, LAMBDA x : x # c)
    /\ sent' = NoneSent
    /\ lastSettled' = "none"
    /\ NoReply
    /\ UNCHANGED <<latestAggregatedData, pc, calls, log, timers>>
    /\ Unused

NoQuery == [sortBy |-> "", order |-> "", limit |-> <<>>, cursor |-> <<>>]

\* the query clients of the system send: price ascending, two per page
Queries == {[NoQuery EXCEPT !.sortBy = "price", !.order = "asc", !.limit = <<"2">>]}

\* lines 205-215: GET /api/tokens
ApiTokens(query) ==
    /\ pc # "boot"
    /\ request' = handlerOpts(query)
    /\ response' = filterAndSortTokens(latestAggregatedData, handlerOpts(query))
    /\ reqStart' = 0
    /\ sent' = NoneSent
    /\ lastSettled' = "none"
    /\ UNCHANGED <<latestAggregatedData, pc, calls, wssClients, readyState, log, timers>>
    /\ Unused

Next ==
    \/ Listen
    \/ TimerFires
    \/ \E w \in Windows : FetchSettles(w)
    \/ \E w \in Windows : BackoffTimer(w)
    \/ CycleBody
    \/ \E c \in Subscribers : Connection(c)
    \/ \E c \in Subscribers : ClientClosing(c)
    \/ \E c \in Subscribers : ClientClosed(c)
    \/ \E q \in Queries : ApiTokens(q)

Spec == Init /\ [][Next]_vars

\* the timers fire and the synchronous code after an await runs: what the event loop
\* guarantees. Whether an upstream request ever settles is not in the program's hands
\* (fetchTokens sets no timeout).
TimerFairness ==
    /\ WF_vars(Listen)
    /\ WF_vars(TimerFires)
    /\ WF_vars(CycleBody)
    /\ \A w \in Windows : WF_vars(BackoffTimer(w))

FairSpec == Spec /\ TimerFairness

\* the system with every client subscribing, and no queries
NextFanout ==
    \/ Listen
    \/ TimerFires
    \/ \E w \in Windows : FetchSettles(w)
    \/ \E w \in Windows : BackoffTimer(w)
    \/ CycleBody
    \/ \E c \in Clients : Connection(c)
    \/ \E c \in Clients : ClientClosing(c)
    \/ \E c \in Clients : ClientClosed(c)

SpecFanout == Init /\ [][NextFanout]_vars

----------------------------------------------------------------------------
(* mergeTokens called on its own                                           *)

\* the longest argument
MaxMergeLen == 3

SeqsUpTo(S, n) == UNION {[1..k -> S] : k \in 0..n}

\* normalized tokens to merge: the upstream's records of 5m, 1h and 6h, and a
\* record without a symbol whose id is the ticker of another
MergeInputs ==
    {transformToken(Payload("5m")[1]), transformToken(Payload("1h")[1]),
     transformToken(Payload("1h")[2]), transformToken(Payload("6h")[1]),
     transformToken(Raw(<<"a","b","c">>, <<>>, 4, 4, 40, 3, 0))}

\* what the specifications of a single function leave as the module load left it
Idle ==
    /\ calls = [w \in Windows |-> NoCall]
    /\ wssClients = <<>>
    /\ readyState = [c \in Clients |-> "CLOSED"]
    /\ sent = NoneSent
    /\ log = ""
    /\ timers = 0
    /\ lastSettled = "none"

\* no transformToken or fetchTokens call is observed
NoDirectCall == callIn = NoArg /\ callOut = NoArg

InitMerge ==
    /\ pc = "mergeTokens"
    /\ mergeIn \in SeqsUpTo(MergeInputs, MaxMergeLen)
    /\ mergeOut = <<>>
    /\ latestAggregatedData = <<>>
    /\ request = NoRequest /\ response = NoResponse /\ reqStart = 0
    /\ bo = NoBackoff
    /\ pages = NoPages
    /\ NoDirectCall
    /\ Idle

\* lines 77-98: the call returns
MergeCall ==
    /\ pc = "mergeTokens"
    /\ mergeOut' = mergeTokens(mergeIn)
    /\ pc' = "returned"
    /\ UNCHANGED <<latestAggregatedData, calls, wssClients, readyState, sent, request,
                   response, reqStart, log, mergeIn, bo, timers, lastSettled,
                   pages, callIn, callOut>>

NextMerge == MergeCall

SpecMerge == InitMerge /\ [][NextMerge]_vars

----------------------------------------------------------------------------
(* withExponentialBackoff called on its own                                *)

\* the largest maxRetries
MaxAttempts == 3

BaseDelays == {1000, baseDelayDefault}

\* what apiCall settles with: rate limit, server error, transport error, an empty
\* list, or the records of a window
BackoffResponses ==
    {Http(429, "array", <<>>), Http(500, "array", <<>>),
     [Http(0, "array", <<>>) EXCEPT !.transportError = TRUE],
     Http(200, "array", <<>>),
     Http(200, "array", Payload("5m")), Http(200, "object", Payload("1h"))}

\* line 17, then line 20 of the first pass: apiCall is in flight
InitBackoff ==
    /\ pc = "withExponentialBackoff"
    /\ \E m \in 1..MaxAttempts : \E b \in BaseDelays :
          bo = [st |-> backoffStart, maxRetries |-> m, baseDelay |-> b,
                invoked |-> 1, errors |-> <<>>, delays |-> <<>>, resolved |-> NoData]
    /\ latestAggregatedData = <<>>
    /\ request = NoRequest /\ response = NoResponse /\ reqStart = 0
    /\ mergeIn = <<>> /\ mergeOut = <<>>
    /\ pages = NoPages
    /\ NoDirectCall
    /\ Idle

\* lines 20-27: apiCall settles
BoSettles ==
    /\ pc = "withExponentialBackoff"
    /\ bo.st.phase = "calling"
    /\ \E res \in BackoffResponses :
          LET r   == fetchTokens(res)
              st2 == IF r.ok THEN backoffOnResolve(bo.st, r.data)
                     ELSE backoffOnReject(bo.st, r.error, bo.maxRetries, bo.baseDelay)
          IN  bo' = [bo EXCEPT
                        !.st = st2,
                        !.errors = IF r.ok THEN @ ELSE Append(@, r.error),
                        !.delays = IF st2.phase = "waiting" THEN Append(@, st2.delay) ELSE @,
                        !.resolved = IF r.ok THEN r.data ELSE @]
    /\ UNCHANGED <<latestAggregatedData, pc, calls, wssClients, readyState, sent, request,
                   response, reqStart, log, mergeIn, mergeOut, timers, lastSettled,
                   pages, callIn, callOut>>

\* line 26: the timer fires; lines 18 and 20: the next pass calls apiCall
BoTimer ==
    /\ pc = "withExponentialBackoff"
    /\ bo.st.phase = "waiting"
    /\ bo' = [bo EXCEPT !.st = backoffOnTimer(@), !.invoked = @ + 1]
    /\ UNCHANGED <<latestAggregatedData, pc, calls, wssClients, readyState, sent, request,
                   response, reqStart, log, mergeIn, mergeOut, timers, lastSettled,
                   pages, callIn, callOut>>

NextBackoff == BoSettles \/ BoTimer

SpecBackoff == InitBackoff /\ [][NextBackoff]_vars

----------------------------------------------------------------------------
(* transformToken called on its own                                        *)

\* raw records: null, and records whose fields are present or absent, with a string
\* or a (truthy) number as symbol
RawInputs ==
    {RawNull} \cup
    {[isNull |-> FALSE, id |-> id, mint |-> mint, symKind |-> symKind, symbol |-> symbol,
      name |-> <<>>, usdPrice |-> usdPrice, priceUsd |-> 0, icon |-> <<>>,
      liquidity |-> 0, mcap |-> 0, hasStats |-> hasStats, priceChange |-> 0,
      buyVolume |-> buyVolume, sellVolume |-> 0] :
        id \in {<<>>, <<"m","1">>}, mint \in {<<>>, <<"M","x">>},
        symKind \in {"string"}, symbol \in {<<>>, <<"A","b">>},
        usdPrice \in {0, 2}, hasStats \in BOOLEAN, buyVolume \in {0, 3}} \cup
    {[isNull |-> FALSE, id |-> id, mint |-> <<>>, symKind |-> "number", symbol |-> <<"7">>,
      name |-> <<>>, usdPrice |-> usdPrice, priceUsd |-> 0, icon |-> <<>>,
      liquidity |-> 0, mcap |-> 0, hasStats |-> FALSE, priceChange |-> 0,
      buyVolume |-> 0, sellVolume |-> 0] :
        id \in {<<>>, <<"m","1">>}, usdPrice \in {0, 2}}

InitTransform ==
    /\ pc = "transformToken"
    /\ callIn \in {[kind |-> "raw", raw |-> t] : t \in RawInputs}
    /\ callOut = NoArg
    /\ mergeIn = <<>> /\ mergeOut = <<>>
    /\ latestAggregatedData = <<>>
    /\ request = NoRequest /\ response = NoResponse /\ reqStart = 0
    /\ bo = NoBackoff
    /\ pages = NoPages
    /\ Idle

\* lines 45-73: the call returns a token or throws
TransformCall ==
    /\ pc = "transformToken"
    /\ callOut' = IF transformTokenThrows(callIn.raw)
                  THEN [kind |-> "threw"]
                  ELSE [kind |-> "token", token |-> transformToken(callIn.raw)]
    /\ pc' = "returned"
    /\ UNCHANGED <<latestAggregatedData, calls, wssClients, readyState, sent, request,
                   response, reqStart, log, mergeIn, mergeOut, bo, timers, lastSettled,
                   pages, callIn>>

NextTransform == TransformCall

SpecTransform == InitTransform /\ [][NextTransform]_vars

----------------------------------------------------------------------------
(* fetchTokens called on its own                                           *)

\* the statuses the upstream answers with
Statuses == {200, 204, 404, 429, 500}

\* a character of a string held by body.data: the code reads only how many there are
\* (tokens.length, line 40)
Character(c) == [isNull |-> FALSE, char |-> c]

\* the bodies: a bare array, an object with a data array, an object whose data is a
\* string, an object without data, null, and text that is not JSON
Bodies ==
    {[shape |-> "array", items |-> is] :
        is \in {<<>>, <<Raw(<<"m","1">>, <<"A","b">>, 1, 0, 0, 0, 0)>>, <<RawNull>>}} \cup
    {[shape |-> "object", items |-> is] :
        is \in {<<>>, <<Raw(<<"m","1">>, <<"A","b">>, 1, 0, 0, 0, 0)>>, <<RawNull>>}} \cup
    {[shape |-> "dataString", items |-> is] :
        is \in {<<>>, <<Character("a")>>, <<Character("a"), Character("b")>>}} \cup
    {[shape |-> sh, items |-> <<>>] : sh \in {"noData", "null", "invalid"}}

FetchInputs ==
    {[transportError |-> TRUE, status |-> 0, shape |-> "invalid", items |-> <<>>]} \cup
    {Http(st, b.shape, b.items) : st \in Statuses, b \in Bodies}

InitFetch ==
    /\ pc = "fetchTokens"
    /\ callIn \in {[kind |-> "response", res |-> res] : res \in FetchInputs}
    /\ callOut = NoArg
    /\ mergeIn = <<>> /\ mergeOut = <<>>
    /\ latestAggregatedData = <<>>
    /\ request = NoRequest /\ response = NoResponse /\ reqStart = 0
    /\ bo = NoBackoff
    /\ pages = NoPages
    /\ Idle

\* lines 33-42: the promise of fetchTokens settles
FetchCall ==
    /\ pc = "fetchTokens"
    /\ callOut' = [kind |-> "settled", result |-> fetchTokens(callIn.res)]
    /\ pc' = "returned"
    /\ UNCHANGED <<latestAggregatedData, calls, wssClients, readyState, sent, request,
                   response, reqStart, log, mergeIn, mergeOut, bo, timers, lastSettled,
                   pages, callIn>>

NextFetch == FetchCall

SpecFetch == InitFetch /\ [][NextFetch]_vars

----------------------------------------------------------------------------
(* filterAndSortTokens called on its own                                   *)

\* the most tokens of a snapshot
MaxQueryTokens == 3
\* the largest offset a client's cursor is made for, and how far below zero paging goes
MaxOffset == 3

\* tokens of different prices, two of equal volume, one of negative price
QueryTokens ==
    {transformToken(Raw(<<"q","1">>, <<"A","A">>, 1, 0, 0, 10, 0)),
     transformToken(Raw(<<"q","2">>, <<"B","B">>, 3, 0, 0, 5, 0)),
     transformToken(Raw(<<"q","3">>, <<"C","C">>, 2, 0, 0, 5, 0)),
     transformToken(Raw(<<"q","4">>, <<"D","D">>, -1, 0, 0, 7, 0))}

\* snapshots: no token twice
QuerySnapshots ==
    {q \in SeqsUpTo(QueryTokens, MaxQueryTokens) :
        \A i, j \in 1..Len(q) : i # j => q[i] # q[j]}

\* cursors a client can send that the Query Engine did not produce: not base64, not
\* JSON, JSON without an offset, JSON null, and a negative offset
MalformedCursors ==
    {<<"!", "!", "!">>,
     B64Encode(<<97, 98, 99>>),
     B64Encode(TXT_empty_obj),
     B64Encode(TXT_null),
     encodeCursor(-1)}

\* a cursor with the offset it stands for; a malformed one is to stand for 0
CursorChoices ==
    {[cursor |-> <<>>, start |-> 0]}
    \cup {[cursor |-> encodeCursor(k), start |-> k] : k \in 0..MaxOffset}
    \cup {[cursor |-> c, start |-> 0] : c \in MalformedCursors}

\* the limits of the calls: 0 is opts.limit absent
Limits == {-1, 0, 1, 2}

InitQuery ==
    /\ pc = "filterAndSortTokens"
    /\ latestAggregatedData \in QuerySnapshots
    /\ request = NoRequest /\ response = NoResponse /\ reqStart = 0
    /\ mergeIn = <<>> /\ mergeOut = <<>>
    /\ bo = NoBackoff
    /\ pages = NoPages
    /\ NoDirectCall
    /\ Idle

\* lines 161-191: a client's first call
Query ==
    /\ pc = "filterAndSortTokens"
    /\ ~response.present
    /\ \E sortBy \in {"", "price"} : \E order \in {"", "asc"} :
       \E limit \in Limits : \E ch \in CursorChoices :
          /\ \E req \in {[sortBy |-> sortBy, order |-> order, limit |-> limit,
                         cursor |-> ch.cursor, present |-> TRUE]} :
                /\ request' = req
                /\ response' = filterAndSortTokens(latestAggregatedData, req)
          /\ reqStart' = ch.start
          /\ pages' = [fromStart |-> ch.cursor = <<>>, calls |-> 1,
                       tokens |-> response'.tokens]
    /\ UNCHANGED <<latestAggregatedData, pc, calls, wssClients, readyState, sent, log,
                   mergeIn, mergeOut, bo, timers, lastSettled, callIn, callOut>>

\* the client asks for the next page with the cursor the last call returned
NextPage ==
    /\ pc = "filterAndSortTokens"
    /\ response.present
    /\ response.nextCursor # <<>>
    /\ request.cursor \notin MalformedCursors
    /\ reqStart + response.limit >= -MaxOffset
    /\ \E req \in {[request EXCEPT !.cursor = response.nextCursor]} :
          /\ request' = req
          /\ response' = filterAndSortTokens(latestAggregatedData, req)
    /\ reqStart' = reqStart + response.limit
    /\ pages' = [pages EXCEPT !.calls = @ + 1, !.tokens = @ \o response'.tokens]
    /\ UNCHANGED <<latestAggregatedData, pc, calls, wssClients, readyState, sent, log,
                   mergeIn, mergeOut, bo, timers, lastSettled, callIn, callOut>>

NextQuery == Query \/ NextPage

SpecQuery == InitQuery /\ [][NextQuery]_vars

----------------------------------------------------------------------------
(* Claims on the system specification                                      *)

AllSettled == pc = "polling" /\ \A w \in Windows : backoffSettled(calls[w])
AllFailed  == pc = "polling" /\ \A w \in Windows : calls[w].phase = "failed"

NoUpdateSent(s) == \A c \in Clients : \A k \in 1..Len(s[c]) : s[c][k].type # "UPDATE"

\* C1: a cycle in which every window failed after its retries leaves
\* latestAggregatedData as it was before the cycle and broadcasts no UPDATE.
C1_TotalFailureKeepsSnapshot ==
    [][(AllFailed /\ pc' # "polling")
          => /\ latestAggregatedData' = latestAggregatedData
             /\ NoUpdateSent(sent')]_vars

\* a total failure has just ended while a snapshot of an earlier cycle is published
C1_Witness ==
    /\ pc = "timer"
    /\ log = "POLL ERROR No data collected"
    /\ Len(latestAggregatedData) > 0

SomeOk     == \E w \in Windows : calls[w].phase = "ok"
SomeFailed == \E w \in Windows : calls[w].phase = "failed"

RECURSIVE NormalizedFrom(_, _)
\* the normalized records of the windows k.. that succeeded, in the order of INTERVALS
NormalizedFrom(cs, k) ==
    IF k > Len(INTERVALS) THEN <<>>
    ELSE (IF cs[INTERVALS[k]].phase = "ok"
          THEN mapTransform(cs[INTERVALS[k]].data.items)
          ELSE <<>>) \o NormalizedFrom(cs, k + 1)

\* C2: a cycle in which some windows succeed with records and the others fail installs
\* mergeTokens of the normalized records of the succeeding windows as the snapshot.
C2_PartialFailurePublishes ==
    [][(AllSettled /\ SomeOk /\ SomeFailed /\ pc' # "polling")
          => latestAggregatedData' = mergeTokens(NormalizedFrom(calls, 1))]_vars

CycleStarts == Listen \/ TimerFires

RECURSIVE RecordsOf(_, _)
\* the normalized records of the windows of S from the k-th on, in the order of INTERVALS
RecordsOf(S, k) ==
    IF k > Len(INTERVALS) THEN <<>>
    ELSE (IF INTERVALS[k] \in S THEN mapTransform(Payload(INTERVALS[k])) ELSE <<>>)
         \o RecordsOf(S, k + 1)

\* the windows whose records all normalize
CleanWindows ==
    {w \in Windows : \A k \in 1..Len(Payload(w)) : ~transformTokenThrows(Payload(w)[k])}

\* the complete snapshots: for a set of windows that succeeded, all their records, merged
CompleteSnapshots == {mergeTokens(RecordsOf(S, 1)) : S \in (SUBSET CleanWindows) \ {{}}}

\* C4: what a reader observes at any point of a cycle (the answer of /api/tokens, the
\* INITIAL_LOAD of a connection, the UPDATE of a broadcast) is computed from
\* latestAggregatedData, which is the empty collection of the module load or a complete
\* snapshot: all records of the windows that succeeded in one cycle, fully merged.
C4_SnapshotAtomicity ==
    /\ latestAggregatedData \in CompleteSnapshots \cup {<<>>}
    /\ \A c \in Clients : \A k \in 1..Len(sent[c]) :
          /\ sent[c][k].tokens = latestAggregatedData
          /\ sent[c][k].tokens \in CompleteSnapshots
    /\ response.present => response = filterAndSortTokens(latestAggregatedData, request)

\* /api/tokens has just answered from the previous snapshot in the middle of a cycle:
\* one window has delivered records, another is still in flight
C4_Witness ==
    /\ pc = "polling"
    /\ \E w \in Windows : calls[w].phase = "ok"
    /\ \E w \in Windows : calls[w].phase = "calling"
    /\ response.present
    /\ response.total = 2

----------------------------------------------------------------------------
(* Claims on the fan-out                                                   *)

\* the step is a cycle's body that installs a new snapshot
Installs ==
    /\ AllSettled
    /\ pc' # "polling"
    /\ log' \in {"MERGED", "POLL ERROR send failed"}

\* the send to c is the one that threw in this step: c is the first OPEN client, in
\* the order of wss.clients, that has no message
SendFailedAt(c) ==
    /\ log' = "POLL ERROR send failed"
    /\ \E k \in 1..Len(wssClients) :
          /\ wssClients[k] = c
          /\ readyState[c] = "OPEN"
          /\ sent'[c] = <<>>
          /\ \A j \in 1..(k - 1) :
                readyState[wssClients[j]] = "OPEN" => sent'[wssClients[j]] # <<>>

\* C11: when a cycle installs a snapshot, every client that is OPEN (and whose own send
\* does not fail) is sent exactly one UPDATE carrying the new snapshot, and a client
\* that is not OPEN is sent nothing.
C11_UpdateFanOut ==
    [][Installs =>
          \A c \in Clients :
             /\ (readyState[c] = "OPEN" /\ ~SendFailedAt(c))
                   => sent'[c] = <<Message("UPDATE", latestAggregatedData')>>
             /\ readyState[c] # "OPEN" => sent'[c] = <<>>]_vars

\* C12: when the send to one client fails during a broadcast, every other OPEN client
\* is still sent the UPDATE of that cycle.
C12_SendFailureIsolated ==
    [][(Installs /\ log' = "POLL ERROR send failed") =>
          \A c \in Clients :
             (readyState[c] = "OPEN" /\ ~SendFailedAt(c)) => Len(sent'[c]) = 1]_vars

\* C13: when a client connects, a non-empty snapshot is sent to it as one INITIAL_LOAD
\* and to no one else; with an empty snapshot nothing is sent.
C13_InitialLoadOnSubscribe ==
    [][\A c \in Clients :
          (readyState[c] = "CLOSED" /\ readyState'[c] = "OPEN") =>
             sent' = [d \in Clients |->
                         IF d = c /\ Len(latestAggregatedData) > 0
                         THEN <<Message("INITIAL_LOAD", latestAggregatedData)>>
                         ELSE <<>>]]_vars

\* c2 has just connected and got the snapshot, while c1, connected before, got nothing
C13_Witness ==
    /\ readyState["c1"] = "OPEN"
    /\ readyState["c2"] = "OPEN"
    /\ wssClients = <<"c1", "c2">>
    /\ Len(latestAggregatedData) > 0
    /\ sent["c2"] = <<Message("INITIAL_LOAD", latestAggregatedData)>>
    /\ sent["c1"] = <<>>

----------------------------------------------------------------------------
(* Claims on mergeTokens                                                   *)

\* MergeKey as the specification defines it: the lowercased symbol if the symbol is
\* present and not the sentinel "N/A", else the lowercased id
MergeKey(tok) ==
    IF tok.symbol # <<>> /\ tok.symbol # STR_NA
    THEN toLowerCase(tok.symbol)
    ELSE toLowerCase(tok.id)

\* C5: no two entries of an output of mergeTokens have equal MergeKeys.
C5_AtMostOnePerMergeKey ==
    pc = "returned" =>
        \A i, j \in 1..Len(mergeOut) :
            i # j => MergeKey(mergeOut[i]) # MergeKey(mergeOut[j])

\* C15: the key mergeTokens files a token under is lowercase(symbol) when the symbol is
\* present and not "N/A", and lowercase(id) otherwise; so two input tokens without a
\* symbol and with different ids are two separate entries of the output.
C15_MergeKeySelection ==
    pc = "returned" =>
        /\ \A i \in 1..Len(mergeIn) : mergeKey(mergeIn[i]) = MergeKey(mergeIn[i])
        /\ \A i, j \in 1..Len(mergeIn) :
              (/\ mergeIn[i].symbol = STR_NA
               /\ mergeIn[j].symbol = STR_NA
               /\ toLowerCase(mergeIn[i].id) # toLowerCase(mergeIn[j].id))
              => \E a, b \in 1..Len(mergeOut) :
                    /\ a # b
                    /\ mergeOut[a].id = mergeIn[i].id
                    /\ mergeOut[b].id = mergeIn[j].id

\* the input tokens of the MergeKey key, in input order
GroupOf(in, key) == SelectSeq(in, LAMBDA t : MergeKey(t) = key)

RECURSIVE SumVolume(_)
SumVolume(g) == IF g = <<>> THEN 0 ELSE Head(g).volume24h + SumVolume(Tail(g))

RECURSIVE MaxLiquidity(_)
MaxLiquidity(g) == IF g = <<>> THEN 0 ELSE Max(Head(g).liquidity, MaxLiquidity(Tail(g)))

RECURSIVE MaxMarketCap(_)
MaxMarketCap(g) == IF g = <<>> THEN 0 ELSE Max(Head(g).marketCap, MaxMarketCap(Tail(g)))

RECURSIVE PriceAfter(_, _)
\* the price after the first k tokens of g: an incoming price replaces the existing one
\* exactly when it is non-zero and exceeds it, or the existing one is zero
PriceAfter(g, k) ==
    IF k = 1 THEN g[1].price
    ELSE LET existing == PriceAfter(g, k - 1)
             incoming == g[k].price
         IN  IF incoming # 0 /\ (incoming > existing \/ existing = 0)
             THEN incoming ELSE existing

\* C6: each merged entry's volume24h is the sum, and its liquidity and marketCap the
\* maximum, over the input tokens of its MergeKey, and its price follows the update rule.
C6_MergeCombinationRules ==
    pc = "returned" =>
        \A k \in 1..Len(mergeOut) :
            LET g == GroupOf(mergeIn, MergeKey(mergeOut[k]))
            IN  /\ g # <<>>
                /\ mergeOut[k].volume24h = SumVolume(g)
                /\ mergeOut[k].liquidity = MaxLiquidity(g)
                /\ mergeOut[k].marketCap = MaxMarketCap(g)
                /\ mergeOut[k].price = PriceAfter(g, Len(g))

----------------------------------------------------------------------------
(* Claims on withExponentialBackoff                                        *)

RateLimited(err) == includes(err, <<"4","2","9">>)

\* C7: the k-th delay waited is baseDelay*5^(k-1) if the k-th failure carries "429" and
\* baseDelay*2^(k-1) otherwise; no delay is waited after the final failed attempt; a call
\* with maxRetries = 3 that always fails rate-limited waits baseDelay, then baseDelay*5.
C7_BackoffSchedule ==
    pc = "withExponentialBackoff" =>
        /\ \A k \in 1..Len(bo.delays) :
              bo.delays[k] = bo.baseDelay * Pow(IF RateLimited(bo.errors[k]) THEN 5 ELSE 2, k - 1)
        /\ Len(bo.delays) = (IF bo.st.phase = "failed" THEN Len(bo.errors) - 1
                             ELSE Len(bo.errors))
        /\ (/\ bo.st.phase = "failed"
            /\ bo.maxRetries = 3
            /\ \A k \in 1..Len(bo.errors) : RateLimited(bo.errors[k]))
              => bo.delays = <<bo.baseDelay, bo.baseDelay * 5>>

\* a call with the defaults has failed for good, rate-limited three times
C7_Witness ==
    /\ pc = "withExponentialBackoff"
    /\ bo.st.phase = "failed"
    /\ bo.maxRetries = 3
    /\ bo.baseDelay = 2000
    /\ Len(bo.errors) = 3
    /\ \A k \in 1..Len(bo.errors) : RateLimited(bo.errors[k])
    /\ bo.delays = <<2000, 10000>>

\* C8: apiCall is invoked at most maxRetries times; the call returns what the first
\* attempt that resolves resolved with, and no attempt follows it; when every attempt
\* fails the call throws the error of the last attempt.
C8_BoundedRetry ==
    pc = "withExponentialBackoff" =>
        /\ bo.invoked <= bo.maxRetries
        /\ bo.invoked = Len(bo.errors) + (IF bo.st.phase \in {"calling", "ok"} THEN 1 ELSE 0)
        /\ bo.st.phase = "ok" => bo.st.data = bo.resolved /\ bo.resolved # NoData
        /\ bo.resolved # NoData => bo.st.phase = "ok"
        /\ bo.st.phase = "failed"
              => /\ bo.invoked = bo.maxRetries
                 /\ bo.st.error = bo.errors[Len(bo.errors)]

\* a call with the defaults has thrown the error of its third attempt, which is not
\* the error of its first
C8_Witness ==
    /\ pc = "withExponentialBackoff"
    /\ bo.st.phase = "failed"
    /\ bo.maxRetries = 3
    /\ bo.invoked = 3
    /\ bo.st.error = bo.errors[3]
    /\ bo.errors[1] # bo.errors[3]

----------------------------------------------------------------------------
(* Claims on filterAndSortTokens                                           *)

\* the filtered, sorted sequence a request pages through
SortedOf(req) ==
    sortedFiltered(latestAggregatedData,
                   IF req.sortBy # "" THEN req.sortBy ELSE "volume",
                   IF req.order # "" THEN req.order ELSE "desc")

\* C9: for a cursor of the Query Engine (or none) standing for the offset start, the
\* page is the slice [start, start+limit) of the filtered, sorted sequence; nextCursor
\* is non-null exactly when start+limit < total, and then decodes to start+limit; the
\* call with that nextCursor returns the slice from start+limit.
C9_PaginationRoundTrip ==
    (pc = "filterAndSortTokens" /\ response.present /\ request.cursor \notin MalformedCursors) =>
        LET all   == SortedOf(request)
            start == reqStart
            limit == response.limit
        IN  /\ response.total = Len(all)
            /\ response.tokens = SubSeq(all, start + 1, Min(start + limit, Len(all)))
            /\ (response.nextCursor # <<>>) <=> (start + limit < Len(all))
            /\ response.nextCursor # <<>> => cursorStart(response.nextCursor) = start + limit

\* C10: a call with a cursor the Query Engine did not produce answers as the call
\* without a cursor does (stated for the calls with a positive limit).
C10_MalformedCursorIsOffsetZero ==
    (/\ pc = "filterAndSortTokens" /\ response.present
     /\ request.cursor \in MalformedCursors /\ response.limit > 0) =>
        response = filterAndSortTokens(latestAggregatedData, [request EXCEPT !.cursor = <<>>])

\* the calls a traversal of total tokens takes with pages of limit tokens
CallsNeeded(total, limit) == Max(1, (total + limit - 1) \div limit)

\* C20: a traversal that starts without a cursor and follows nextCursor, with a positive
\* limit and an unchanged snapshot, has after each call received the first tokens of
\* the filtered, sorted sequence, a full page per call; every page reports the length of
\* that sequence as total; nextCursor is null on the call that completes the sequence,
\* which is the ceil(total / limit)-th (the first, if there are no tokens), and the pages
\* concatenated are then exactly the sequence.
C20_TraversalCompleteAndTerminates ==
    (pc = "filterAndSortTokens" /\ pages.fromStart /\ response.present /\ response.limit > 0) =>
        LET all   == SortedOf(request)
            limit == response.limit
        IN  /\ response.total = Len(all)
            /\ \A k \in 1..Len(all) : all[k].price >= 0
            /\ pages.tokens = SubSeq(all, 1, Min(pages.calls * limit, Len(all)))
            /\ pages.calls <= CallsNeeded(Len(all), limit)
            /\ (response.nextCursor = <<>>) <=> (pages.calls = CallsNeeded(Len(all), limit))
            /\ response.nextCursor = <<>> => pages.tokens = all

\* a traversal of two pages of one token each has ended, over a snapshot of three
\* tokens of which one has a negative price
C20_Witness ==
    /\ pc = "filterAndSortTokens"
    /\ pages.fromStart
    /\ response.present
    /\ response.limit = 1
    /\ pages.calls = 2
    /\ response.nextCursor = <<>>
    /\ Len(pages.tokens) = 2
    /\ Len(latestAggregatedData) = 3

----------------------------------------------------------------------------
(* Claims on the concurrency of a cycle                                    *)

\* C16: a cycle starts the fetches of all windows together; a step of one window's
\* fetch (its failure, its retry timer, its success) changes no other window's call,
\* and a result once obtained is kept; a window that is calling or waiting can take
\* its next step whatever the others do; the body of the cycle runs only when every
\* window has succeeded or has exhausted its retries.
C16_IndependentSettlement ==
    /\ [](pc = "polling" =>
             \A w \in Windows :
                /\ calls[w].phase = "calling" => ENABLED FetchSettles(w)
                /\ calls[w].phase = "waiting" => ENABLED BackoffTimer(w))
    /\ [][/\ (pc # "polling" /\ pc' = "polling") =>
                \A w \in Windows : calls'[w].phase = "calling" /\ calls'[w].i = 0
          /\ (pc = "polling" /\ pc' = "polling") =>
                \A w \in Windows :
                   /\ calls'[w] # calls[w] =>
                         \A v \in Windows \ {w} : calls'[v] = calls[v]
                   /\ calls[w].phase \in {"ok", "failed"} => calls'[w] = calls[w]
          /\ (pc = "polling" /\ pc' # "polling") =>
                \A w \in Windows : calls[w].phase \in {"ok", "failed"}]_vars

\* 5m has exhausted its retries and 1h waits for a retry; 6h has just succeeded
C16_Witness ==
    /\ pc = "polling"
    /\ calls["5m"].phase = "failed"
    /\ calls["1h"].phase = "waiting"
    /\ calls["6h"].phase = "ok"
    /\ lastSettled = "6h"

\* C18: the timer of the next cycle is armed only by the completion of a cycle's body,
\* and exactly one per completed cycle; no timer is pending while a cycle is in
\* progress, so a cycle starts only after the previous one has completed and at most
\* one is in progress, however many retries its fetches take.
C18_FixedDelayNoOverlap ==
    /\ [](/\ timers <= 1
          /\ timers = 1 => pc = "timer"
          /\ pc = "polling" => timers = 0)
    /\ [][/\ timers' > timers =>
                /\ pc = "polling"
                /\ \A w \in Windows : calls[w].phase \in {"ok", "failed"}
                /\ pc' # "polling"
          /\ (pc = "polling" /\ pc' # "polling") => timers' = timers + 1
          /\ (pc # "polling" /\ pc' = "polling") =>
                \/ pc = "boot" /\ timers' = timers
                \/ pc = "timer" /\ timers' = timers - 1]_vars

\* a cycle in which every window went through all its retries has completed, and one
\* timer is pending
C18_Witness ==
    /\ pc = "timer"
    /\ timers = 1
    /\ log = "POLL ERROR No data collected"

\* the windows whose fetch succeeded in the cycle that is about to be merged
OkWindows == {w \in Windows : calls[w].phase = "ok"}

\* C19: the snapshot a cycle installs is the merge of the records of the windows that
\* succeeded, accumulated in the configured order 5m, 1h, 6h, 24h, whichever window's
\* fetch completed last: it depends on the outcomes of the windows only.
C19_CompletionOrderIndependence ==
    [][\A last \in Windows \cup {"none"} :
          (Installs /\ lastSettled = last) =>
             latestAggregatedData' = mergeTokens(RecordsOf(OkWindows, 1))]_vars

\* 1h completed last, after 5m and 6h had succeeded, and the snapshot installed holds
\* the records in the configured order, which is not what the order of completion gives
C19_Witness ==
    /\ pc = "timer"
    /\ lastSettled = "1h"
    /\ log = "MERGED"
    /\ latestAggregatedData = mergeTokens(RecordsOf({"5m", "1h", "6h"}, 1))
    /\ latestAggregatedData # mergeTokens(RecordsOf({"5m", "6h"}, 1) \o RecordsOf({"1h"}, 1))

----------------------------------------------------------------------------
(* Claims on transformToken and fetchTokens called on their own             *)

\* C14: transformToken never raises, whatever the raw record: a call that has returned
\* has returned a token, and a missing id, symbol or price is its documented default.
C14_NormalizationTotal ==
    callOut # NoArg =>
       /\ callOut.kind = "token"
       /\ (callIn.raw.id = <<>> /\ callIn.raw.mint = <<>>) => callOut.token.id = STR_unknown
       /\ callIn.raw.symbol = <<>> => callOut.token.symbol = STR_NA
       /\ (callIn.raw.usdPrice = 0 /\ callIn.raw.priceUsd = 0) => callOut.token.price = 0

\* C17: fetchTokens resolves exactly when the status is successful and the body is a
\* non-empty bare array or an object whose data is a non-empty array; for every other
\* response it rejects.
C17_ResponseShapeValidated ==
    callOut # NoArg =>
       (callOut.result.ok <=>
           /\ ~callIn.res.transportError
           /\ callIn.res.status >= 200 /\ callIn.res.status <= 299
           /\ callIn.res.shape \in {"array", "object"}
           /\ Len(callIn.res.items) > 0)

====
